---- MODULE Spec2Model ----
(***************************************************************************)
(* A model of the Jumbo File System layer (src/jumbo_file_system.c): the   *)
(* directory and inode bookkeeping built on a block store.  Every jfs_*    *)
(* call is one action; the block store (read_block, write_block,           *)
(* allocate_block, release_block) and the constants of the header          *)
(* jumbo_file_system.h are not part of src/ and are modelled from spec.md. *)
(***************************************************************************)
EXTENDS Integers, Sequences, FiniteSets, TLC

(***************************************************************************)
(* Constants of jumbo_file_system.h (spec.md section 6), at model scale.   *)
(***************************************************************************)
BLOCK_SIZE == 2
MAX_DATA_BLOCKS == 2
MAX_FILE_SIZE == MAX_DATA_BLOCKS * BLOCK_SIZE
MAX_DIR_ENTRIES == 2
MAX_NAME_LENGTH == 3

\* src/jumbo_file_system.c:12-13
IS_DIR == 0
IS_FILE == 1

(***************************************************************************)
(* Bounds of the model.                                                    *)
(***************************************************************************)
\* handles of the block store are 1..NumBlocks; 0 is the invalid handle
NumBlocks == 4
\* the largest *ptr_count passed to jfs_read
MaxCount == 3
\* byte values are 0..MaxByte
MaxByte == 3

Handles == 1 .. NumBlocks
\* the byte values callers write: 0 (reads back as the tag IS_DIR) and MaxByte
WriteBytes == {0, MaxByte}
Names == {"a", "b"}
LongName == "long"
AllNames == Names \cup {LongName}
\* the name held by an entry that was never written as an entry
Garbage == "?"

strlen(s) == IF s = LongName THEN MAX_NAME_LENGTH + 1 ELSE 1

MIN(a, b) == IF a < b THEN a ELSE b

Zeros(n) == [i \in 1 .. n |-> 0]

(***************************************************************************)
(* struct block.  A block on disk is one of                                *)
(*   [is_dir, entries]                 a block written as a directory node *)
(*   [is_dir, file_size, data_blocks]  a block written as an inode         *)
(*   [raw]                             a block written as file data        *)
(* The code reads every block through struct block whatever was written to *)
(* it; the views below give what each field access then yields, with the   *)
(* tag as the first byte and the count (num_entries, file_size) after it.  *)
(***************************************************************************)
DirBlock(tag, entries) == [is_dir |-> tag, entries |-> entries]
InodeBlock(tag, size, blocks) ==
    [is_dir |-> tag, file_size |-> size, data_blocks |-> blocks]
RawBlock(bytes) == [raw |-> bytes]

IsRaw(b) == "raw" \in DOMAIN b
IsDirContent(b) == "entries" \in DOMAIN b
IsInodeContent(b) == "file_size" \in DOMAIN b

GarbageEntries(n) == [i \in 1 .. n |-> [name |-> Garbage, block_num |-> 0]]

\* block.is_dir
Tag(b) == IF IsRaw(b) THEN (IF b.raw[1] = IS_DIR THEN IS_DIR ELSE IS_FILE)
          ELSE b.is_dir

\* block.contents.dirnode: the entries 1..num_entries
Entries(b) ==
    IF IsDirContent(b) THEN b.entries
    ELSE IF IsInodeContent(b) THEN GarbageEntries(b.file_size)
    ELSE GarbageEntries(b.raw[2])

\* block.contents.inode.file_size
FileSize(b) ==
    IF IsInodeContent(b) THEN b.file_size
    ELSE IF IsDirContent(b) THEN Len(b.entries)
    ELSE b.raw[2]

\* block.contents.inode.data_blocks
DataBlocks(b) ==
    IF IsInodeContent(b) THEN b.data_blocks ELSE Zeros(MAX_DATA_BLOCKS)

\* the block as BLOCK_SIZE bytes (read_block into a byte buffer)
Bytes(b) ==
    IF IsRaw(b) THEN b.raw
    ELSE [i \in 1 .. BLOCK_SIZE |->
            IF i = 1 THEN b.is_dir
            ELSE IF i = 2 THEN FileSize(b) % (MaxByte + 1)
            ELSE 0]

(***************************************************************************)
(* The block store.  A store state is [disk, alloc, bad, got]: the blocks, *)
(* the allocated handles, whether release_block was ever called on a       *)
(* handle that was not allocated (or on the root), and the handles the     *)
(* running call has allocated and not released.                            *)
(***************************************************************************)
ValidHandle(h) == h \in Handles

\* read_block succeeds on a valid handle unless the store fails
ReadOK(h, fail) == ValidHandle(h) /\ ~fail

\* write_block
write_block(st, h, blk, fail) ==
    IF ValidHandle(h) /\ ~fail THEN [st EXCEPT !.disk[h] = blk] ELSE st
WriteOK(h, fail) == ValidHandle(h) /\ ~fail

\* release_block
release_block(st, h, fail) ==
    LET st1 == [st EXCEPT !.bad = @ \/ h \notin (st.alloc \ {1})]
    IN  IF ValidHandle(h) /\ ~fail
        THEN [st1 EXCEPT !.alloc = @ \ {h}, !.got = @ \ {h}]
        ELSE st1
ReleaseOK(h, fail) == ValidHandle(h) /\ ~fail

\* allocate_block: the handles it may return (0 when none is free)
FreeBlocks(st) == Handles \ st.alloc
allocate_block(st) == IF FreeBlocks(st) = {} THEN {0} ELSE FreeBlocks(st)
Allocated(st, h) == [st EXCEPT !.alloc = @ \cup {h}, !.got = @ \cup {h}]

(***************************************************************************)
(* Helpers shared by the jfs_* functions.                                  *)
(***************************************************************************)
\* the store fails the calls named in F; at most MaxFaults calls fail in one
\* operation
MaxFaults == 1
FaultSets(points) == {F \in SUBSET points : Cardinality(F) <= MaxFaults}

\* a lookup that finds no entry
FindNothing(entries, name) == 0

\* the loop "for i < num_entries: if strcmp(entries[i].name, name) == 0":
\* the first matching index, 0 when there is none
FindEntry(entries, name) ==
    IF \E i \in 1 .. Len(entries) : entries[i].name = name
    THEN CHOOSE i \in 1 .. Len(entries) :
            /\ entries[i].name = name
            /\ \A j \in 1 .. (i - 1) : entries[j].name # name
    ELSE 0

\* a removal that drops the last entry whatever i is
RemoveLast(entries, i) == SubSeq(entries, 1, Len(entries) - 1)

\* "entries[j] = entries[j + 1]" for j from i, then num_entries--
RemoveEntry(entries, i) ==
    [j \in 1 .. (Len(entries) - 1) |-> IF j < i THEN entries[j] ELSE entries[j + 1]]

\* a kind check that takes every readable block for a directory
is_readable(st, h, fail) == ReadOK(h, fail)

\* is_dir(block_num): FALSE when read_block fails
is_dir(st, h, fail) == ReadOK(h, fail) /\ Tag(st.disk[h]) = IS_DIR

\* what an operation hands back: the store, the cursor, the return code and
\* the output it wrote for the caller
Outcome(st, cur, res, out) == [st |-> st, cur |-> cur, res |-> res, out |-> out]

(***************************************************************************)
(* jfs_mkdir.  h is the handle allocate_block returns.                     *)
(***************************************************************************)
MkdirFaults == {"read_cur", "write_new", "write_cur"}

\* a mkdir that takes its block from the allocator before it looks at the
\* name and the directory
jfs_mkdir_allocating_first(st, cur, name, F, h) ==
    IF ~ReadOK(cur, "read_cur" \in F) THEN Outcome(st, cur, "E_UNKNOWN", <<>>)
    ELSE
    LET current_block == st.disk[cur]
        entries == Entries(current_block)
        st1 == IF h = 0 THEN st ELSE Allocated(st, h)
    IN  IF FindEntry(entries, name) # 0 THEN Outcome(st1, cur, "E_EXISTS", <<>>)
        ELSE IF strlen(name) > MAX_NAME_LENGTH
        THEN Outcome(st1, cur, "E_MAX_NAME_LENGTH", <<>>)
        ELSE IF Len(entries) >= MAX_DIR_ENTRIES
        THEN Outcome(st1, cur, "E_MAX_DIR_ENTRIES", <<>>)
        ELSE IF h = 0 THEN Outcome(st, cur, "E_DISK_FULL", <<>>)
        ELSE IF ~WriteOK(h, "write_new" \in F)
        THEN Outcome(st1, cur, "E_UNKNOWN", <<>>)
        ELSE
        LET st2 == write_block(st1, h, DirBlock(IS_DIR, <<>>), FALSE)
            updated == DirBlock(Tag(current_block),
                          Append(entries, [name |-> name, block_num |-> h]))
        IN  IF ~WriteOK(cur, "write_cur" \in F)
            THEN Outcome(st2, cur, "E_UNKNOWN", <<>>)
            ELSE Outcome(write_block(st2, cur, updated, FALSE), cur,
                         "E_SUCCESS", <<>>)

jfs_mkdir(st, cur, name, F, h) ==
    IF ~ReadOK(cur, "read_cur" \in F) THEN Outcome(st, cur, "E_UNKNOWN", <<>>)
    ELSE
    LET current_block == st.disk[cur]
        entries == Entries(current_block)
        num_entries == Len(entries)
    IN  IF FindEntry(entries, name) # 0 THEN Outcome(st, cur, "E_EXISTS", <<>>)
        ELSE IF strlen(name) > MAX_NAME_LENGTH
        THEN Outcome(st, cur, "E_MAX_NAME_LENGTH", <<>>)
        ELSE IF num_entries >= MAX_DIR_ENTRIES
        THEN Outcome(st, cur, "E_MAX_DIR_ENTRIES", <<>>)
        ELSE IF h = 0 THEN Outcome(st, cur, "E_DISK_FULL", <<>>)
        ELSE
        LET st1 == Allocated(st, h)
            new_dir_block == DirBlock(IS_DIR, <<>>)
        IN  IF ~WriteOK(h, "write_new" \in F)
            THEN Outcome(st1, cur, "E_UNKNOWN", <<>>)
            ELSE
            LET st2 == write_block(st1, h, new_dir_block, FALSE)
                updated == DirBlock(Tag(current_block),
                              Append(entries, [name |-> name, block_num |-> h]))
            IN  IF ~WriteOK(cur, "write_cur" \in F)
                THEN Outcome(st2, cur, "E_UNKNOWN", <<>>)
                ELSE Outcome(write_block(st2, cur, updated, FALSE), cur,
                             "E_SUCCESS", <<>>)

(***************************************************************************)
(* jfs_chdir.  NoName stands for the NULL argument.                        *)
(***************************************************************************)
NoName == "NULL"
ChdirFaults == {"read_cur", "read_target"}

jfs_chdir(st, cur, name, F) ==
    IF name = NoName THEN Outcome(st, 1, "E_SUCCESS", <<>>)
    ELSE IF ~ReadOK(cur, "read_cur" \in F) THEN Outcome(st, cur, "E_UNKNOWN", <<>>)
    ELSE
    LET entries == Entries(st.disk[cur])
        i == FindEntry(entries, name)
    IN  IF i = 0 THEN Outcome(st, cur, "E_NOT_EXISTS", <<>>)
        ELSE IF ~is_dir(st, entries[i].block_num, "read_target" \in F)
        THEN Outcome(st, cur, "E_NOT_DIR", <<>>)
        ELSE Outcome(st, entries[i].block_num, "E_SUCCESS", <<>>)

(***************************************************************************)
(* jfs_ls: the directory names and the file names, each in entry order.    *)
(***************************************************************************)
LsFaults == {<<"read_cur", 0>>} \cup {<<"read_entry", k>> : k \in 1 .. MAX_DIR_ENTRIES}

RECURSIVE LsNames(_, _, _, _, _)
LsNames(st, entries, F, wantDir, i) ==
    IF i > Len(entries) THEN <<>>
    ELSE LET d == is_dir(st, entries[i].block_num, <<"read_entry", i>> \in F)
             rest == LsNames(st, entries, F, wantDir, i + 1)
         IN  IF d = wantDir THEN <<entries[i].name>> \o rest ELSE rest

jfs_ls(st, cur, F) ==
    IF ~ReadOK(cur, <<"read_cur", 0>> \in F) THEN Outcome(st, cur, "E_UNKNOWN", <<>>)
    ELSE
    LET entries == Entries(st.disk[cur])
    IN  Outcome(st, cur, "E_SUCCESS",
                [directories |-> LsNames(st, entries, F, TRUE, 1),
                 files |-> LsNames(st, entries, F, FALSE, 1)])

(***************************************************************************)
(* jfs_rmdir                                                               *)
(***************************************************************************)
\* an emptiness check that takes every directory for empty
NeverNotEmpty(dir_block) == FALSE

\* "if (dir_block.contents.dirnode.num_entries > 0) return E_NOT_EMPTY"
\* (lines 282-285)
NotEmpty(dir_block) == Len(Entries(dir_block)) > 0

RmdirFaults == {"read_cur", "read_target", "read_dir", "release", "write_cur"}

jfs_rmdir(st, cur, name, F) ==
    IF ~ReadOK(cur, "read_cur" \in F) THEN Outcome(st, cur, "E_UNKNOWN", <<>>)
    ELSE
    LET current_block == st.disk[cur]
        entries == Entries(current_block)
        i == FindEntry(entries, name)
    IN  IF i = 0 THEN Outcome(st, cur, "E_NOT_EXISTS", <<>>)
        ELSE
        LET block_num == entries[i].block_num
        IN  IF ~is_dir(st, block_num, "read_target" \in F)
            THEN Outcome(st, cur, "E_NOT_DIR", <<>>)
            ELSE IF ~ReadOK(block_num, "read_dir" \in F)
            THEN Outcome(st, cur, "E_UNKNOWN", <<>>)
            ELSE IF NotEmpty(st.disk[block_num])
            THEN Outcome(st, cur, "E_NOT_EMPTY", <<>>)
            ELSE
            LET st1 == release_block(st, block_num, "release" \in F)
            IN  IF ~ReleaseOK(block_num, "release" \in F)
                THEN Outcome(st1, cur, "E_UNKNOWN", <<>>)
                ELSE IF ~WriteOK(cur, "write_cur" \in F)
                THEN Outcome(st1, cur, "E_UNKNOWN", <<>>)
                ELSE Outcome(write_block(st1, cur,
                                 DirBlock(Tag(current_block), RemoveEntry(entries, i)),
                                 FALSE),
                             cur, "E_SUCCESS", <<>>)

(***************************************************************************)
(* jfs_creat.  h is the handle allocate_block returns.                     *)
(***************************************************************************)
CreatFaults == {"read_cur", "write_new", "write_cur", "release"}

jfs_creat(st, cur, name, F, h) ==
    IF strlen(name) > MAX_NAME_LENGTH
    THEN Outcome(st, cur, "E_MAX_NAME_LENGTH", <<>>)
    ELSE IF ~ReadOK(cur, "read_cur" \in F) THEN Outcome(st, cur, "E_UNKNOWN", <<>>)
    ELSE
    LET current_block == st.disk[cur]
        entries == Entries(current_block)
    IN  IF FindEntry(entries, name) # 0 THEN Outcome(st, cur, "E_EXISTS", <<>>)
        ELSE IF Len(entries) >= MAX_DIR_ENTRIES
        THEN Outcome(st, cur, "E_MAX_DIR_ENTRIES", <<>>)
        ELSE IF h = 0 THEN Outcome(st, cur, "E_DISK_FULL", <<>>)
        ELSE
        LET st1 == Allocated(st, h)
            inode_block == InodeBlock(IS_FILE, 0, Zeros(MAX_DATA_BLOCKS))
        IN  IF ~WriteOK(h, "write_new" \in F)
            THEN Outcome(release_block(st1, h, "release" \in F), cur,
                         "E_UNKNOWN", <<>>)
            ELSE
            LET st2 == write_block(st1, h, inode_block, FALSE)
                updated == DirBlock(Tag(current_block),
                              Append(entries, [name |-> name, block_num |-> h]))
            IN  IF ~WriteOK(cur, "write_cur" \in F)
                THEN Outcome(release_block(st2, h, "release" \in F), cur,
                             "E_UNKNOWN", <<>>)
                ELSE Outcome(write_block(st2, cur, updated, FALSE), cur,
                             "E_SUCCESS", <<>>)

(***************************************************************************)
(* jfs_remove                                                              *)
(***************************************************************************)
RemoveFaults ==
    {<<"read_cur", 0>>, <<"read_target", 0>>, <<"release_inode", 0>>,
     <<"write_cur", 0>>} \cup {<<"release_data", k>> : k \in 1 .. MAX_DATA_BLOCKS}

\* "for (i = 0; i < MAX_DATA_BLOCKS && data_blocks[i] != 0; i++) release_block":
\* [st, ok], ok FALSE when a release failed and the loop returned
RECURSIVE ReleaseData(_, _, _, _)
ReleaseData(st, data_blocks, F, i) ==
    IF i > MAX_DATA_BLOCKS \/ data_blocks[i] = 0 THEN [st |-> st, ok |-> TRUE]
    ELSE LET fail == <<"release_data", i>> \in F
             st1 == release_block(st, data_blocks[i], fail)
         IN  IF ~ReleaseOK(data_blocks[i], fail) THEN [st |-> st1, ok |-> FALSE]
             ELSE ReleaseData(st1, data_blocks, F, i + 1)

jfs_remove(st, cur, name, F) ==
    IF ~ReadOK(cur, <<"read_cur", 0>> \in F)
    THEN Outcome(st, cur, "E_UNKNOWN", <<>>)
    ELSE
    LET current_block == st.disk[cur]
        entries == Entries(current_block)
        file_index == FindEntry(entries, name)
    IN  IF file_index = 0 THEN Outcome(st, cur, "E_NOT_EXISTS", <<>>)
        ELSE
        LET inode_block_num == entries[file_index].block_num
        IN  IF ~ReadOK(inode_block_num, <<"read_target", 0>> \in F)
            THEN Outcome(st, cur, "E_UNKNOWN", <<>>)
            ELSE
            LET inode_block == st.disk[inode_block_num]
            IN  IF Tag(inode_block) = IS_DIR THEN Outcome(st, cur, "E_IS_DIR", <<>>)
                ELSE
                LET r == ReleaseData(st, DataBlocks(inode_block), F, 1)
                    fail == <<"release_inode", 0>> \in F
                    st2 == release_block(r.st, inode_block_num, fail)
                IN  IF ~r.ok THEN Outcome(r.st, cur, "E_UNKNOWN", <<>>)
                    ELSE IF ~ReleaseOK(inode_block_num, fail)
                    THEN Outcome(st2, cur, "E_UNKNOWN", <<>>)
                    ELSE IF ~WriteOK(cur, <<"write_cur", 0>> \in F)
                    THEN Outcome(st2, cur, "E_UNKNOWN", <<>>)
                    ELSE Outcome(write_block(st2, cur,
                                     DirBlock(Tag(current_block),
                                              RemoveEntry(entries, file_index)),
                                     FALSE),
                                 cur, "E_SUCCESS", <<>>)

(***************************************************************************)
(* jfs_stat                                                                *)
(***************************************************************************)
StatFaults == {"read_cur", "read_target"}

jfs_stat(st, cur, name, F) ==
    IF ~ReadOK(cur, "read_cur" \in F) THEN Outcome(st, cur, "E_UNKNOWN", <<>>)
    ELSE
    LET entries == Entries(st.disk[cur])
        file_index == FindEntry(entries, name)
    IN  IF file_index = 0 THEN Outcome(st, cur, "E_NOT_EXISTS", <<>>)
        ELSE
        LET entry_block_num == entries[file_index].block_num
        IN  IF ~ReadOK(entry_block_num, "read_target" \in F)
            THEN Outcome(st, cur, "E_UNKNOWN", <<>>)
            ELSE
            LET entry_block == st.disk[entry_block_num]
                file_size == FileSize(entry_block)
            IN  IF Tag(entry_block) = IS_DIR
                THEN Outcome(st, cur, "E_SUCCESS",
                         [name |-> name, block_num |-> entry_block_num,
                          is_dir |-> IS_DIR, num_data_blocks |-> 0, file_size |-> 0])
                ELSE Outcome(st, cur, "E_SUCCESS",
                         [name |-> name, block_num |-> entry_block_num,
                          is_dir |-> IS_FILE,
                          num_data_blocks |->
                              IF file_size > 0
                              THEN (file_size - 1) \div BLOCK_SIZE + 1 ELSE 0,
                          file_size |-> file_size])

(***************************************************************************)
(* jfs_read.  The output is the bytes copied to buf; *ptr_count is their   *)
(* number.                                                                 *)
(***************************************************************************)
ReadFaults ==
    {<<"read_cur", 0>>, <<"read_target", 0>>}
        \cup {<<"read_data", k>> : k \in 1 .. MAX_DATA_BLOCKS}

\* the loop over the block_used first data blocks: [ok, bytes]
RECURSIVE ReadBlocks(_, _, _, _, _, _)
ReadBlocks(st, data_blocks, F, bytes_to_read, block_used, i) ==
    IF i > block_used THEN [ok |-> TRUE, bytes |-> <<>>]
    ELSE IF ~ReadOK(data_blocks[i], <<"read_data", i>> \in F)
    THEN [ok |-> FALSE, bytes |-> <<>>]
    ELSE
    LET bytes_have_read == (i - 1) * BLOCK_SIZE
        bytes_this_block == MIN(bytes_to_read - bytes_have_read, BLOCK_SIZE)
        rest == ReadBlocks(st, data_blocks, F, bytes_to_read, block_used, i + 1)
    IN  [ok |-> rest.ok,
         bytes |-> SubSeq(Bytes(st.disk[data_blocks[i]]), 1, bytes_this_block)
                       \o rest.bytes]

jfs_read(st, cur, name, ptr_count, F) ==
    IF ~ReadOK(cur, <<"read_cur", 0>> \in F)
    THEN Outcome(st, cur, "E_UNKNOWN", <<>>)
    ELSE
    LET entries == Entries(st.disk[cur])
        file_index == FindEntry(entries, name)
    IN  IF file_index = 0 THEN Outcome(st, cur, "E_NOT_EXISTS", <<>>)
        ELSE IF ~ReadOK(entries[file_index].block_num, <<"read_target", 0>> \in F)
        THEN Outcome(st, cur, "E_UNKNOWN", <<>>)
        ELSE
        LET inode_block == st.disk[entries[file_index].block_num]
            bytes_to_read == MIN(FileSize(inode_block), ptr_count)
            block_used == (bytes_to_read + BLOCK_SIZE - 1) \div BLOCK_SIZE
            r == ReadBlocks(st, DataBlocks(inode_block), F, bytes_to_read,
                            block_used, 1)
        IN  IF Tag(inode_block) = IS_DIR THEN Outcome(st, cur, "E_IS_DIR", <<>>)
            ELSE IF ~r.ok THEN Outcome(st, cur, "E_UNKNOWN", <<>>)
            ELSE Outcome(st, cur, "E_SUCCESS", r.bytes)

(***************************************************************************)
(* jfs_write.  The function returns the set of its possible outcomes: one  *)
(* for each sequence of handles allocate_block may return and, when the    *)
(* array data_block_nums is indexed past its end, one for each value such  *)
(* a slot may read back.                                                   *)
(***************************************************************************)
WriteFaults ==
    {<<"read_cur", 0>>, <<"read_target", 0>>, <<"read_last", 0>>,
     <<"release_last", 0>>, <<"write_inode", 0>>}
        \cup {<<"write_data", k>> : k \in 1 .. MAX_DATA_BLOCKS}
        \cup {<<"release_cleanup", k>> : k \in 1 .. MAX_DATA_BLOCKS}

\* the sequences of n distinct handles of free
InjSeqs(free, n) ==
    {s \in [1 .. n -> free] : \A i, j \in 1 .. n : i # j => s[i] # s[j]}

\* what blocks_needed calls of allocate_block return: blocks_needed distinct
\* free handles, or every free handle and then 0
AllocSeqs(free, blocks_needed) ==
    IF Cardinality(free) >= blocks_needed THEN InjSeqs(free, blocks_needed)
    ELSE {Append(s, 0) : s \in InjSeqs(free, Cardinality(free))}

\* a size check that also rejects a write that fills the file exactly
FileTooLargeOrFull(file_size, count) == file_size + count >= MAX_FILE_SIZE

\* "if (file_size + count > MAX_FILE_SIZE) return E_MAX_FILE_SIZE" (line 588)
FileTooLarge(file_size, count) == file_size + count > MAX_FILE_SIZE

\* a start position that counts the new blocks from 0
StartAtZero(file_size) == 0

\* unsigned short next_start_position (lines 633-637)
NextStartPosition(file_size) ==
    IF file_size = 0 THEN 0
    ELSE IF file_size % BLOCK_SIZE = 0 THEN file_size \div BLOCK_SIZE
    ELSE (file_size + BLOCK_SIZE - 1) \div BLOCK_SIZE - 1

\* a block count that forgets the bytes of the partial last block
BlocksForCount(file_size, count) == (count + BLOCK_SIZE - 1) \div BLOCK_SIZE

\* unsigned short blocks_needed (lines 627-630)
BlocksNeeded(file_size, count) ==
    (count + (file_size % BLOCK_SIZE) + BLOCK_SIZE - 1) \div BLOCK_SIZE

\* block_num_t data_block_nums[blocks_needed] is indexed by
\* i = next_start_position + k - 1 for the k-th new block: past its end when
\* i >= blocks_needed
OutOfBounds(next_start_position, blocks_needed, k) ==
    next_start_position + k - 1 >= blocks_needed

\* what the slots past the end of data_block_nums may read back: the value
\* stored (Faithful) or any handle value
Faithful == -1
SlotReadBacks(next_start_position, blocks_needed) ==
    IF \E k \in 1 .. blocks_needed :
           OutOfBounds(next_start_position, blocks_needed, k)
    THEN {Faithful} \cup (0 .. NumBlocks)
    ELSE {Faithful}

\* data_block_nums[next_start_position + k - 1] read after it was stored
ReadBack(hs, next_start_position, blocks_needed, u, k) ==
    IF OutOfBounds(next_start_position, blocks_needed, k) /\ u # Faithful
    THEN u ELSE hs[k]

\* append_buffer (lines 600-624): the last block's bytes with buf copied
\* over them from append_position, or buf itself
AppendBuffer(last_bytes, append_position, buf) ==
    [p \in 1 .. (append_position + Len(buf)) |->
        IF p > append_position THEN buf[p - append_position] ELSE last_bytes[p]]

\* buffer_to_write for the k-th new block (lines 663-680)
Chunk(append_buffer, write_size, k) ==
    LET bytes_written == (k - 1) * BLOCK_SIZE
        bytes_to_write == MIN(write_size - bytes_written, BLOCK_SIZE)
    IN  [p \in 1 .. BLOCK_SIZE |->
            IF p <= bytes_to_write THEN append_buffer[bytes_written + p] ELSE 0]

\* "for (j = next_start_position; j < i; j++) release_block(data_block_nums[j])"
\* for the n first new blocks; the return values are ignored
RECURSIVE ReleaseNew(_, _, _, _, _, _, _, _)
ReleaseNew(st, hs, nsp, bn, u, F, n, k) ==
    IF k > n THEN st
    ELSE ReleaseNew(release_block(st, ReadBack(hs, nsp, bn, u, k),
                                  <<"release_cleanup", k>> \in F),
                    hs, nsp, bn, u, F, n, k + 1)

\* every allocation of hs up to the first 0
RECURSIVE AllocateAll(_, _, _)
AllocateAll(st, hs, k) ==
    IF k > Len(hs) \/ hs[k] = 0 THEN st
    ELSE AllocateAll(Allocated(st, hs[k]), hs, k + 1)

\* the loop writing the new blocks (lines 661-699): [st, failed], failed the
\* k of the write_block that failed, 0 when none did
RECURSIVE WriteChunks(_, _, _, _, _, _, _, _, _)
WriteChunks(st, hs, nsp, bn, u, F, append_buffer, write_size, k) ==
    IF k > bn THEN [st |-> st, failed |-> 0]
    ELSE
    LET target == ReadBack(hs, nsp, bn, u, k)
        fail == <<"write_data", k>> \in F
    IN  IF ~WriteOK(target, fail) THEN [st |-> st, failed |-> k]
        ELSE WriteChunks(write_block(st, target,
                                     RawBlock(Chunk(append_buffer, write_size, k)),
                                     FALSE),
                         hs, nsp, bn, u, F, append_buffer, write_size, k + 1)

\* the inode's data_blocks after lines 702-705
NewDataBlocks(data_blocks, hs, nsp, bn, u) ==
    [i \in 1 .. MAX_DATA_BLOCKS |->
        IF i - nsp \in 1 .. bn THEN ReadBack(hs, nsp, bn, u, i - nsp)
        ELSE data_blocks[i]]

\* lines 639-723, after the last block was read and released
WriteBlocks(st, cur, inode_block_num, inode_block, append_buffer, count, F, u, hs) ==
    LET file_size == FileSize(inode_block)
        append_position == file_size % BLOCK_SIZE
        write_size == count + append_position
        bn == BlocksNeeded(file_size, count)
        nsp == NextStartPosition(file_size)
        st1 == AllocateAll(st, hs, 1)
    IN  IF Len(hs) > 0 /\ hs[Len(hs)] = 0
        THEN Outcome(ReleaseNew(st1, hs, nsp, bn, u, F, Len(hs) - 1, 1), cur,
                     "E_DISK_FULL", <<>>)
        ELSE
        LET w == WriteChunks(st1, hs, nsp, bn, u, F, append_buffer, write_size, 1)
            updated == InodeBlock(Tag(inode_block), file_size + count,
                           NewDataBlocks(DataBlocks(inode_block), hs, nsp, bn, u))
        IN  IF w.failed # 0
            THEN Outcome(ReleaseNew(w.st, hs, nsp, bn, u, F, w.failed - 1, 1), cur,
                         "E_UNKNOWN", <<>>)
            ELSE IF ~WriteOK(inode_block_num, <<"write_inode", 0>> \in F)
            THEN Outcome(w.st, cur, "E_UNKNOWN", <<>>)
            ELSE Outcome(write_block(w.st, inode_block_num, updated, FALSE), cur,
                         "E_SUCCESS", <<>>)

jfs_write(st, cur, name, buf, F) ==
    IF ~ReadOK(cur, <<"read_cur", 0>> \in F)
    THEN {Outcome(st, cur, "E_UNKNOWN", <<>>)}
    ELSE
    LET entries == Entries(st.disk[cur])
        file_index == FindEntry(entries, name)
    IN  IF file_index = 0 THEN {Outcome(st, cur, "E_NOT_EXISTS", <<>>)}
        ELSE IF ~ReadOK(entries[file_index].block_num, <<"read_target", 0>> \in F)
        THEN {Outcome(st, cur, "E_UNKNOWN", <<>>)}
        ELSE
        LET inode_block_num == entries[file_index].block_num
            inode_block == st.disk[inode_block_num]
            file_size == FileSize(inode_block)
            count == Len(buf)
            append_position == file_size % BLOCK_SIZE
            last_block_num == (file_size - 1) \div BLOCK_SIZE
            last == DataBlocks(inode_block)[last_block_num + 1]
            bn == BlocksNeeded(file_size, count)
            nsp == NextStartPosition(file_size)
        IN  IF Tag(inode_block) = IS_DIR THEN {Outcome(st, cur, "E_IS_DIR", <<>>)}
            ELSE IF FileTooLarge(file_size, count)
            THEN {Outcome(st, cur, "E_MAX_FILE_SIZE", <<>>)}
            ELSE IF append_position > 0 /\ file_size > 0
            THEN IF ~ReadOK(last, <<"read_last", 0>> \in F)
                 THEN {Outcome(st, cur, "E_UNKNOWN", <<>>)}
                 ELSE
                 LET st1 == release_block(st, last, <<"release_last", 0>> \in F)
                     append_buffer ==
                         AppendBuffer(Bytes(st.disk[last]), append_position, buf)
                 IN  {WriteBlocks(st1, cur, inode_block_num, inode_block,
                                  append_buffer, count, F, u, hs) :
                        u \in SlotReadBacks(nsp, bn),
                        hs \in AllocSeqs(FreeBlocks(st1), bn)}
            ELSE {WriteBlocks(st, cur, inode_block_num, inode_block, buf, count,
                              F, u, hs) :
                    u \in SlotReadBacks(nsp, bn),
                    hs \in AllocSeqs(FreeBlocks(st), bn)}

(***************************************************************************)
(* The tree the blocks form, read the way the code reads it: from block 1, *)
(* an entry's target is a directory node or an inode by its tag, and an    *)
(* inode's non-zero slots are data blocks.                                 *)
(***************************************************************************)
\* the blocks the entries of directory h name
EntryTargets(d, h) ==
    {Entries(d[h])[i].block_num : i \in 1 .. Len(Entries(d[h]))}

RECURSIVE NodesFrom(_, _, _)
NodesFrom(d, R, n) ==
    IF n = 0 THEN R
    ELSE NodesFrom(d,
             R \cup UNION {EntryTargets(d, h) \cap Handles :
                             h \in {g \in R : Tag(d[g]) = IS_DIR}},
             n - 1)

\* the directory nodes and inodes reachable from the root
Nodes(d) == NodesFrom(d, {1}, NumBlocks)
DirNodes(d) == {h \in Nodes(d) : Tag(d[h]) = IS_DIR}
FileNodes(d) == {h \in Nodes(d) : Tag(d[h]) # IS_DIR}

\* the number of entries of the directories S, and of non-zero slots of the
\* inodes S
RECURSIVE FoldSum(_, _)
FoldSum(S, d) ==
    IF S = {} THEN 0
    ELSE LET h == CHOOSE x \in S : TRUE
         IN  Len(Entries(d[h])) + FoldSum(S \ {h}, d)
RECURSIVE FoldSlots(_, _)
FoldSlots(S, d) ==
    IF S = {} THEN 0
    ELSE LET h == CHOOSE x \in S : TRUE
         IN  Cardinality({i \in 1 .. MAX_DATA_BLOCKS : DataBlocks(d[h])[i] # 0})
                 + FoldSlots(S \ {h}, d)

\* every reference held by a reachable block: <<holder, position, target>>
References(d) ==
    UNION {{<<h, i, Entries(d[h])[i].block_num>> : i \in 1 .. Len(Entries(d[h]))} :
             h \in DirNodes(d)}
    \cup
    UNION {{<<h, i, DataBlocks(d[h])[i]>> :
              i \in {j \in 1 .. MAX_DATA_BLOCKS : DataBlocks(d[h])[j] # 0}} :
             h \in FileNodes(d)}

Referenced(d) == {r[3] : r \in References(d)}

\* the file system is as a run without failures leaves it: every reference
\* names an allocated block that nothing else names, every allocated block
\* but the root is named, each block holds what its holder takes it for, and
\* the cursor is on a reachable directory
Consistent(d, a, cur) ==
    LET nodes == Nodes(d)
        dirs == {h \in nodes : Tag(d[h]) = IS_DIR}
        files == nodes \ dirs
        slots == UNION {{DataBlocks(d[h])[i] : i \in 1 .. MAX_DATA_BLOCKS} :
                          h \in files} \ {0}
        nrefs == FoldSum(dirs, d) + FoldSlots(files, d)
    IN  /\ cur \in dirs
        /\ \A h \in dirs : IsDirContent(d[h])
        /\ \A h \in files : IsInodeContent(d[h])
        /\ \A h \in dirs : EntryTargets(d, h) \subseteq Handles
        /\ a = (nodes \cup slots)
        /\ \A h \in slots : h \in Handles /\ IsRaw(d[h])
        /\ nrefs = Cardinality(a) - 1

(***************************************************************************)
(* The state: the store (disk, alloc), the cursor current_dir (line 17),   *)
(* and the number of calls made since the file system first stopped being  *)
(* Consistent.                                                             *)
(***************************************************************************)
VARIABLES
    disk,          \* the block written at each handle
    alloc,         \* the handles that are allocated
    current_dir,   \* static block_num_t current_dir
    aftermath      \* calls made since the first one that left damage

vars == <<disk, alloc, current_dir, aftermath>>

\* a run makes at most MaxAftermath calls from the one that first leaves the
\* file system damaged (that call included)
MaxAftermath == 2

\* the store as a call finds it
Store == [disk |-> disk, alloc |-> alloc, bad |-> FALSE, got |-> {}]

\* every buffer of at most n bytes
BufsUpTo(n) == UNION {[1 .. k -> WriteBytes] : k \in 0 .. n}
\* the buffers the calls of a run pass to jfs_write: one of each length
Bufs == {<<>>, <<MaxByte>>, <<0, MaxByte>>, <<MaxByte, 0, MaxByte>>}

\* calls are still made
Running == aftermath < MaxAftermath

Step(o) ==
    /\ aftermath' = IF aftermath = 0 /\ Consistent(o.st.disk, o.st.alloc, o.cur)
                    THEN 0 ELSE aftermath + 1
    /\ disk' = o.st.disk
    /\ alloc' = o.st.alloc
    /\ current_dir' = o.cur

\* jfs_mount (lines 52-63): the root directory, block 1, is empty and is the
\* only allocated block; current_dir = 1
Init ==
    /\ disk = [h \in Handles |->
                 IF h = 1 THEN DirBlock(IS_DIR, <<>>) ELSE RawBlock(Zeros(BLOCK_SIZE))]
    /\ alloc = {1}
    /\ current_dir = 1
    /\ aftermath = 0

Mkdir ==
    /\ Running
    /\ \E o \in {jfs_mkdir(Store, current_dir, name, F, h) :
                   name \in AllNames, F \in FaultSets(MkdirFaults),
                   h \in allocate_block(Store)} :
           Step(o)

Chdir ==
    /\ Running
    /\ \E o \in {jfs_chdir(Store, current_dir, name, F) :
                   name \in Names \cup {NoName}, F \in FaultSets(ChdirFaults)} :
           Step(o)

Ls ==
    /\ Running
    /\ \E o \in {jfs_ls(Store, current_dir, F) : F \in FaultSets(LsFaults)} :
           Step(o)

Rmdir ==
    /\ Running
    /\ \E o \in {jfs_rmdir(Store, current_dir, name, F) :
                   name \in Names, F \in FaultSets(RmdirFaults)} :
           Step(o)

Creat ==
    /\ Running
    /\ \E o \in {jfs_creat(Store, current_dir, name, F, h) :
                   name \in AllNames, F \in FaultSets(CreatFaults),
                   h \in allocate_block(Store)} :
           Step(o)

Remove ==
    /\ Running
    /\ \E o \in {jfs_remove(Store, current_dir, name, F) :
                   name \in Names, F \in FaultSets(RemoveFaults)} :
           Step(o)

Stat ==
    /\ Running
    /\ \E o \in {jfs_stat(Store, current_dir, name, F) :
                   name \in Names, F \in FaultSets(StatFaults)} :
           Step(o)

Write ==
    /\ Running
    /\ \E o \in UNION {jfs_write(Store, current_dir, name, buf, F) :
                         name \in Names, buf \in Bufs, F \in FaultSets(WriteFaults)} :
           Step(o)

Read ==
    /\ Running
    /\ \E o \in {jfs_read(Store, current_dir, name, n, F) :
                   name \in Names, n \in 0 .. MaxCount, F \in FaultSets(ReadFaults)} :
           Step(o)

Next ==
    \/ Mkdir
    \/ Chdir
    \/ Ls
    \/ Rmdir
    \/ Creat
    \/ Remove
    \/ Stat
    \/ Write
    \/ Read

Spec == Init /\ [][Next]_vars

(***************************************************************************)
(* The runs made of successful jfs_creat and jfs_write calls only: the     *)
(* store fails no call and every call returns E_SUCCESS.                   *)
(***************************************************************************)
CreatSucceeds ==
    /\ Running
    /\ \E o \in {jfs_creat(Store, current_dir, name, {}, h) :
                   name \in Names, h \in allocate_block(Store)} :
           o.res = "E_SUCCESS" /\ Step(o)

WriteSucceeds ==
    /\ Running
    /\ \E o \in UNION {jfs_write(Store, current_dir, name, buf, {}) :
                         name \in Names, buf \in Bufs} :
           o.res = "E_SUCCESS" /\ Step(o)

NextCreatWrite ==
    \/ CreatSucceeds
    \/ WriteSucceeds

SpecCreatWrite == Init /\ [][NextCreatWrite]_vars

(***************************************************************************)
(* The claims.  A claim about what a call does is stated on every          *)
(* reachable state for every call that can be made from it.                *)
(***************************************************************************)
\* a valid name beyond those the calls of a run use
ThirdName == "c"
\* the number of data blocks a file of file_size bytes takes
CeilBlocks(file_size) == (file_size + BLOCK_SIZE - 1) \div BLOCK_SIZE
\* jfs_stat found name and it is a file
IsFileStat(s) == s.res = "E_SUCCESS" /\ s.out.is_dir = IS_FILE

\* C1: round trip.  For every name f, every handle allocate_block may
\* return and every b of at most MAX_FILE_SIZE bytes, when the store fails
\* no call and has the free blocks b takes: if creat(f) succeeds then
\* write(f, b) succeeds and read(f, len(b)) succeeds and returns exactly b.
C1_RoundTrip ==
    \A name \in Names, h \in FreeBlocks(Store), b \in BufsUpTo(MAX_FILE_SIZE) :
        LET c == jfs_creat(Store, current_dir, name, {}, h)
        IN  (/\ c.res = "E_SUCCESS"
             /\ Cardinality(FreeBlocks(c.st)) >= BlocksNeeded(0, Len(b)))
            => \A w \in jfs_write(c.st, c.cur, name, b, {}) :
                   /\ w.res = "E_SUCCESS"
                   /\ LET r == jfs_read(w.st, w.cur, name, Len(b), {})
                      IN  r.res = "E_SUCCESS" /\ r.out = b

\* C2: append.  For every empty file f of the current directory and every
\* b1, b2 with len(b1) + len(b2) <= MAX_FILE_SIZE, when the store fails no
\* call: if write(f, b1) and then write(f, b2) succeed, read(f, len(b1) +
\* len(b2)) returns b1 followed by b2 and stat(f) reports that file_size.
C2_Append ==
    \A name \in Names, b1 \in BufsUpTo(MAX_FILE_SIZE), b2 \in BufsUpTo(MAX_FILE_SIZE) :
        LET s == jfs_stat(Store, current_dir, name, {})
            n == Len(b1) + Len(b2)
        IN  (IsFileStat(s) /\ s.out.file_size = 0 /\ n <= MAX_FILE_SIZE)
            => \A w1 \in jfs_write(Store, current_dir, name, b1, {}) :
                   w1.res = "E_SUCCESS"
                   => \A w2 \in jfs_write(w1.st, w1.cur, name, b2, {}) :
                          w2.res = "E_SUCCESS"
                          => LET r == jfs_read(w2.st, w2.cur, name, n, {})
                                 t == jfs_stat(w2.st, w2.cur, name, {})
                             IN  /\ r.res = "E_SUCCESS" /\ r.out = b1 \o b2
                                 /\ IsFileStat(t) /\ t.out.file_size = n

\* C3: a write to a file that returns E_DISK_FULL or E_UNKNOWN has released
\* every block it allocated, and the inode on disk is as before the call.
C3_FailedWriteReleases ==
    \A name \in Names, buf \in Bufs, F \in FaultSets(WriteFaults) :
        LET s == jfs_stat(Store, current_dir, name, {})
        IN  IsFileStat(s)
            => \A w \in jfs_write(Store, current_dir, name, buf, F) :
                   w.res \in {"E_DISK_FULL", "E_UNKNOWN"}
                   => /\ w.st.got = {}
                      /\ w.st.disk[s.out.block_num] = disk[s.out.block_num]

\* C4: between calls, every handle held by an entry of a reachable
\* directory or by a non-zero slot of a reachable inode is allocated.
C4_NoReleasedReference == Referenced(disk) \subseteq alloc

\* C5: between calls, no handle is held in two places among the entries
\* and slots reachable from the root, and nothing holds the root.
C5_NoSharedBlock ==
    /\ \A r1, r2 \in References(disk) : r1[3] = r2[3] => r1 = r2
    /\ 1 \notin Referenced(disk)

\* C6: no call of jfs_rmdir, jfs_creat, jfs_remove or jfs_write passes to
\* release_block a handle that is not allocated at that moment, the handle
\* 0 or the root handle 1.
C6_ReleaseOnlyAllocated ==
    /\ \A name \in Names, F \in FaultSets(RmdirFaults) :
           ~jfs_rmdir(Store, current_dir, name, F).st.bad
    /\ \A name \in AllNames, F \in FaultSets(CreatFaults), h \in allocate_block(Store) :
           ~jfs_creat(Store, current_dir, name, F, h).st.bad
    /\ \A name \in Names, F \in FaultSets(RemoveFaults) :
           ~jfs_remove(Store, current_dir, name, F).st.bad
    /\ \A name \in Names, buf \in Bufs, F \in FaultSets(WriteFaults) :
           \A w \in jfs_write(Store, current_dir, name, buf, F) : ~w.st.bad

\* C7: a jfs_mkdir or jfs_creat call that returns an error leaves the set
\* of allocated blocks as it was before the call.
C7_FailedCreateKeepsAllocated ==
    \A name \in AllNames, h \in allocate_block(Store) :
        /\ \A F \in FaultSets(MkdirFaults) :
               LET o == jfs_mkdir(Store, current_dir, name, F, h)
               IN  o.res # "E_SUCCESS" => o.st.alloc = alloc
        /\ \A F \in FaultSets(CreatFaults) :
               LET o == jfs_creat(Store, current_dir, name, F, h)
               IN  o.res # "E_SUCCESS" => o.st.alloc = alloc

\* the buffers of every length up to one byte more than a file can hold
C8_Bufs == {Zeros(n) : n \in 0 .. (MAX_FILE_SIZE + 1)}

\* C8: for every file f of the current directory and every buffer: when
\* file_size + len > MAX_FILE_SIZE and the store fails no call, write
\* returns E_MAX_FILE_SIZE; whenever write returns E_MAX_FILE_SIZE the
\* store (every block, the allocated set) is as before the call and so is
\* stat(f); when file_size + len = MAX_FILE_SIZE, write does not return
\* E_MAX_FILE_SIZE, whatever call the store fails.
C8_FileTooLarge ==
    \A name \in Names, buf \in C8_Bufs :
        LET s == jfs_stat(Store, current_dir, name, {})
        IN  IsFileStat(s)
            => \A F \in FaultSets(WriteFaults) :
                   \A w \in jfs_write(Store, current_dir, name, buf, F) :
                       /\ (s.out.file_size + Len(buf) > MAX_FILE_SIZE /\ F = {})
                              => w.res = "E_MAX_FILE_SIZE"
                       /\ w.res = "E_MAX_FILE_SIZE"
                              => /\ s.out.file_size + Len(buf) > MAX_FILE_SIZE
                                 /\ w.st = Store
                                 /\ jfs_stat(w.st, w.cur, name, {}) = s
                       /\ s.out.file_size + Len(buf) = MAX_FILE_SIZE
                              => w.res # "E_MAX_FILE_SIZE"

\* C8 happens: a file of the current directory to which one write is
\* rejected with E_MAX_FILE_SIZE and a write of one byte less, filling it
\* exactly, succeeds
C8_Witness ==
    \E name \in Names :
        LET s == jfs_stat(Store, current_dir, name, {})
        IN  /\ IsFileStat(s)
            /\ s.out.file_size \in 1 .. (MAX_FILE_SIZE - 1)
            /\ \A w \in jfs_write(Store, current_dir, name,
                                  Zeros(MAX_FILE_SIZE + 1 - s.out.file_size), {}) :
                   w.res = "E_MAX_FILE_SIZE"
            /\ \E w \in jfs_write(Store, current_dir, name,
                                  Zeros(MAX_FILE_SIZE - s.out.file_size), {}) :
                   w.res = "E_SUCCESS"

\* C9: after successful creat and write calls only, every reachable inode
\* has file_size <= MAX_FILE_SIZE and non-zero handles in exactly its first
\* ceil(file_size / BLOCK_SIZE) slots, and stat reports that number of data
\* blocks for every file of the current directory.
C9_InodeShape ==
    /\ \A h \in FileNodes(disk) :
           LET file_size == FileSize(disk[h])
           IN  /\ file_size <= MAX_FILE_SIZE
               /\ \A i \in 1 .. MAX_DATA_BLOCKS :
                      (DataBlocks(disk[h])[i] # 0) <=> (i <= CeilBlocks(file_size))
    /\ \A name \in Names :
           LET s == jfs_stat(Store, current_dir, name, {})
           IN  IsFileStat(s) => s.out.num_data_blocks = CeilBlocks(s.out.file_size)

\* C10: every reachable directory node has at most MAX_DIR_ENTRIES entries
\* with pairwise distinct names; on a current directory with
\* MAX_DIR_ENTRIES entries, mkdir and creat of a valid name it does not
\* hold return E_MAX_DIR_ENTRIES and leave the store as it was.
C10_DirectoryShape ==
    /\ \A h \in DirNodes(disk) :
           LET entries == Entries(disk[h])
           IN  /\ Len(entries) <= MAX_DIR_ENTRIES
               /\ \A i, j \in 1 .. Len(entries) :
                      i # j => entries[i].name # entries[j].name
    /\ \A name \in Names \cup {ThirdName}, h \in allocate_block(Store) :
           LET entries == Entries(disk[current_dir])
               m == jfs_mkdir(Store, current_dir, name, {}, h)
               c == jfs_creat(Store, current_dir, name, {}, h)
           IN  (Len(entries) = MAX_DIR_ENTRIES /\ FindEntry(entries, name) = 0)
               => /\ m.res = "E_MAX_DIR_ENTRIES" /\ m.st = Store
                  /\ c.res = "E_MAX_DIR_ENTRIES" /\ c.st = Store

\* the entries hold one called name
HasEntry(entries, name) == \E i \in 1 .. Len(entries) : entries[i].name = name

\* C11: when the current directory holds an entry called name, mkdir(name)
\* and creat(name) return E_EXISTS while the store fails no call, whatever
\* the number of entries and whatever handle allocate_block would return;
\* whichever call the store fails they return E_EXISTS or E_UNKNOWN, and
\* the store (every block, so the entry's target and kind, and the
\* allocated set) and the cursor are as before.
C11_AlreadyExists ==
    \A name \in Names, h \in allocate_block(Store) :
        HasEntry(Entries(disk[current_dir]), name)
        => /\ jfs_mkdir(Store, current_dir, name, {}, h).res = "E_EXISTS"
           /\ jfs_creat(Store, current_dir, name, {}, h).res = "E_EXISTS"
           /\ \A F \in FaultSets(MkdirFaults) :
                  LET o == jfs_mkdir(Store, current_dir, name, F, h)
                  IN  /\ o.res \in {"E_EXISTS", "E_UNKNOWN"}
                      /\ o.st = Store /\ o.cur = current_dir
           /\ \A F \in FaultSets(CreatFaults) :
                  LET o == jfs_creat(Store, current_dir, name, F, h)
                  IN  /\ o.res \in {"E_EXISTS", "E_UNKNOWN"}
                      /\ o.st = Store /\ o.cur = current_dir

\* C11 happens: a full current directory holding a file a made by creat and
\* a directory b made by mkdir, on which mkdir(a) and creat(b) return
\* E_EXISTS
C11_Witness ==
    LET entries == Entries(disk[current_dir])
    IN  /\ aftermath = 0
        /\ Len(entries) = MAX_DIR_ENTRIES
        /\ HasEntry(entries, "a") /\ HasEntry(entries, "b")
        /\ IsFileStat(jfs_stat(Store, current_dir, "a", {}))
        /\ ~IsFileStat(jfs_stat(Store, current_dir, "b", {}))
        /\ \E h \in allocate_block(Store) :
               /\ jfs_mkdir(Store, current_dir, "a", {}, h).res = "E_EXISTS"
               /\ jfs_creat(Store, current_dir, "b", {}, h).res = "E_EXISTS"

\* the names jfs_ls lists, directories and files
Listed(st, cur) ==
    LET l == jfs_ls(st, cur, {})
    IN  {l.out.directories[i] : i \in 1 .. Len(l.out.directories)}
            \cup {l.out.files[i] : i \in 1 .. Len(l.out.files)}

\* C12: for every directory entry name of the current directory, with
\* target t, while the store fails no call: if t has entries, rmdir(name)
\* returns E_NOT_EMPTY and the store and the cursor are as before; if t has
\* none, rmdir(name) returns E_SUCCESS, t is released and ls no longer
\* lists name; and from the root, if t has one entry and that child is
\* removed from inside t (chdir(name), then a successful remove or rmdir of
\* the child, then chdir(NULL)), rmdir(name) returns E_SUCCESS, t is
\* released and ls no longer lists name.
C12_RmdirNotEmpty ==
    \A name \in Names :
        LET s == jfs_stat(Store, current_dir, name, {})
            t == s.out.block_num
            children == Entries(disk[t])
            o == jfs_rmdir(Store, current_dir, name, {})
        IN  (s.res = "E_SUCCESS" /\ s.out.is_dir = IS_DIR)
            => /\ Len(children) > 0
                  => /\ o.res = "E_NOT_EMPTY"
                     /\ o.st = Store /\ o.cur = current_dir
               /\ Len(children) = 0
                  => /\ o.res = "E_SUCCESS"
                     /\ o.st.alloc = alloc \ {t}
                     /\ name \notin Listed(o.st, o.cur)
               /\ (Len(children) = 1 /\ current_dir = 1)
                  => LET in == jfs_chdir(Store, current_dir, name, {})
                         child == children[1].name
                     IN  \A r \in {jfs_remove(in.st, in.cur, child, {}),
                                   jfs_rmdir(in.st, in.cur, child, {})} :
                             (in.res = "E_SUCCESS" /\ r.res = "E_SUCCESS")
                             => LET back == jfs_chdir(r.st, r.cur, NoName, {})
                                    o2 == jfs_rmdir(back.st, back.cur, name, {})
                                IN  /\ o2.res = "E_SUCCESS"
                                    /\ t \notin o2.st.alloc
                                    /\ name \notin Listed(o2.st, o2.cur)

\* C12 happens: the root, undamaged, holds a directory a with one child and
\* an empty directory b: rmdir(a) returns E_NOT_EMPTY, rmdir(b) succeeds,
\* and the child of a can be removed from inside a
C12_Witness ==
    LET s == jfs_stat(Store, current_dir, "a", {})
        in == jfs_chdir(Store, current_dir, "a", {})
    IN  /\ aftermath = 0 /\ current_dir = 1
        /\ jfs_rmdir(Store, current_dir, "a", {}).res = "E_NOT_EMPTY"
        /\ jfs_rmdir(Store, current_dir, "b", {}).res = "E_SUCCESS"
        /\ Len(Entries(disk[s.out.block_num])) = 1
        /\ in.res = "E_SUCCESS"
        /\ \E child \in Names :
               \/ jfs_remove(in.st, in.cur, child, {}).res = "E_SUCCESS"
               \/ jfs_rmdir(in.st, in.cur, child, {}).res = "E_SUCCESS"

\* C13: for every file f of the current directory, while the store fails no
\* call, a remove(f) that returns E_SUCCESS has released the inode block
\* and the blocks of the first ceil(file_size / BLOCK_SIZE) slots, each of
\* them allocated when released and 1 + ceil(file_size / BLOCK_SIZE) blocks
\* in all, and nothing else; stat(f) then returns E_NOT_EXISTS.
C13_RemoveReleases ==
    \A name \in Names :
        LET s == jfs_stat(Store, current_dir, name, {})
            o == jfs_remove(Store, current_dir, name, {})
            n == CeilBlocks(s.out.file_size)
            slots == DataBlocks(disk[s.out.block_num])
        IN  (IsFileStat(s) /\ o.res = "E_SUCCESS")
            => /\ ~o.st.bad
               /\ alloc \ o.st.alloc
                      = {s.out.block_num} \cup {slots[i] : i \in 1 .. MIN(n, MAX_DATA_BLOCKS)}
               /\ Cardinality(alloc \ o.st.alloc) = 1 + n
               /\ jfs_stat(o.st, o.cur, name, {}).res = "E_NOT_EXISTS"

\* C14: for every valid name and every handle allocate_block may return,
\* while the store fails no call: after a creat(name) that returns
\* E_SUCCESS, stat(name) reports a file with file_size 0 and 0 data blocks;
\* after a mkdir(name) that returns E_SUCCESS, stat(name) reports a
\* directory with file_size 0 and 0 data blocks.
C14_StatAfterCreate ==
    \A name \in Names \cup {ThirdName}, h \in allocate_block(Store) :
        LET c == jfs_creat(Store, current_dir, name, {}, h)
            m == jfs_mkdir(Store, current_dir, name, {}, h)
            sc == jfs_stat(c.st, c.cur, name, {})
            sm == jfs_stat(m.st, m.cur, name, {})
        IN  /\ c.res = "E_SUCCESS"
               => /\ sc.res = "E_SUCCESS"
                  /\ sc.out.is_dir = IS_FILE
                  /\ sc.out.file_size = 0 /\ sc.out.num_data_blocks = 0
            /\ m.res = "E_SUCCESS"
               => /\ sm.res = "E_SUCCESS"
                  /\ sm.out.is_dir = IS_DIR
                  /\ sm.out.file_size = 0 /\ sm.out.num_data_blocks = 0

\* the first n bytes of s
Prefix(s, n) == SubSeq(s, 1, MIN(Len(s), n))

\* C15: for every file f of the current directory that reads back whole as
\* x, and every max_bytes from 0 to MAX_FILE_SIZE + 1, while the store
\* fails no call: read(f, max_bytes) returns E_SUCCESS with the first
\* min(file_size, max_bytes) bytes of x and leaves the store and the cursor
\* as they were; and after a write(f, b) that returns E_SUCCESS it returns
\* the first min(file_size + len(b), max_bytes) bytes of x followed by b.
C15_ReadPrefix ==
    \A name \in Names :
        LET s == jfs_stat(Store, current_dir, name, {})
            x == jfs_read(Store, current_dir, name, s.out.file_size, {})
        IN  (IsFileStat(s) /\ x.res = "E_SUCCESS")
            => \A max_bytes \in 0 .. (MAX_FILE_SIZE + 1) :
                   /\ LET r == jfs_read(Store, current_dir, name, max_bytes, {})
                      IN  /\ r.res = "E_SUCCESS"
                          /\ Len(r.out) = MIN(s.out.file_size, max_bytes)
                          /\ r.out = Prefix(x.out, max_bytes)
                          /\ r.st = Store /\ r.cur = current_dir
                   /\ \A b \in Bufs :
                          \A w \in jfs_write(Store, current_dir, name, b, {}) :
                              w.res = "E_SUCCESS"
                              => LET r == jfs_read(w.st, w.cur, name, max_bytes, {})
                                 IN  /\ r.res = "E_SUCCESS"
                                     /\ r.out = Prefix(x.out \o b, max_bytes)
                                     /\ r.st = w.st /\ r.cur = w.cur

\* the block the first entry called name points to
TargetOf(entries, name) ==
    LET i == CHOOSE k \in 1 .. Len(entries) :
                 /\ entries[k].name = name
                 /\ \A j \in 1 .. (k - 1) : entries[j].name # name
    IN  entries[i].block_num

\* C16: chdir.  No chdir call, whichever call the store fails, changes a
\* block or the allocated set, and one that does not return E_SUCCESS
\* leaves the cursor.  While the store fails no call: chdir(NULL) returns
\* E_SUCCESS with the cursor on the root; chdir(name) returns E_NOT_EXISTS
\* when the current directory has no entry called name, E_NOT_DIR when the
\* entry's block is not tagged as a directory, and otherwise E_SUCCESS with
\* the cursor on the entry's block.  In the root, after a mkdir(name) that
\* returns E_SUCCESS, chdir(name) and chdir(NULL) return E_SUCCESS and ls
\* then gives the listing ls gave right after the mkdir, with name among
\* the directories.
C16_ChdirFrame ==
    LET entries == Entries(disk[current_dir])
    IN  /\ \A name \in Names \cup {ThirdName, NoName} :
               /\ \A F \in FaultSets(ChdirFaults) :
                      LET o == jfs_chdir(Store, current_dir, name, F)
                      IN  /\ o.st = Store
                          /\ o.res # "E_SUCCESS" => o.cur = current_dir
               /\ LET o == jfs_chdir(Store, current_dir, name, {})
                  IN  IF name = NoName
                      THEN o.res = "E_SUCCESS" /\ o.cur = 1
                      ELSE IF ~HasEntry(entries, name)
                      THEN o.res = "E_NOT_EXISTS"
                      ELSE IF Tag(disk[TargetOf(entries, name)]) # IS_DIR
                      THEN o.res = "E_NOT_DIR"
                      ELSE o.res = "E_SUCCESS" /\ o.cur = TargetOf(entries, name)
        /\ current_dir = 1
           => \A name \in Names, h \in allocate_block(Store) :
                  LET m == jfs_mkdir(Store, current_dir, name, {}, h)
                      l1 == jfs_ls(m.st, m.cur, {})
                      c1 == jfs_chdir(m.st, m.cur, name, {})
                      c2 == jfs_chdir(c1.st, c1.cur, NoName, {})
                      l2 == jfs_ls(c2.st, c2.cur, {})
                  IN  m.res = "E_SUCCESS"
                      => /\ c1.res = "E_SUCCESS" /\ c1.cur = h
                         /\ c2.res = "E_SUCCESS" /\ c2.cur = 1
                         /\ l2.res = "E_SUCCESS" /\ l2.out = l1.out
                         /\ \E i \in 1 .. Len(l1.out.directories) :
                                l1.out.directories[i] = name

\* a subdirectory is current and holds a directory and a file, so chdir
\* moves the cursor for one name and returns E_NOT_DIR for the other
C16_Witness ==
    /\ aftermath = 0
    /\ current_dir # 1
    /\ \E n1, n2 \in Names :
           /\ jfs_chdir(Store, current_dir, n1, {}).res = "E_SUCCESS"
           /\ jfs_chdir(Store, current_dir, n1, {}).cur \notin {1, current_dir}
           /\ jfs_chdir(Store, current_dir, n2, {}).res = "E_NOT_DIR"
    /\ jfs_chdir(Store, current_dir, ThirdName, {}).res = "E_NOT_EXISTS"
    /\ jfs_chdir(Store, current_dir, NoName, {}).cur = 1

\* C17: a store call that fails makes the operation return E_UNKNOWN.  For
\* every entry name of the current directory: chdir(name) and rmdir(name)
\* return E_UNKNOWN when the read of the current directory or the read of
\* the entry's block fails; ls returns E_UNKNOWN when the read of the
\* current directory or the read of any entry's block fails; and when name
\* is a file whose last block is partly filled, a write that fits returns
\* E_UNKNOWN when the release of that block fails.
C17_StoreFailureIsUnknown ==
    LET entries == Entries(disk[current_dir])
    IN  /\ \A F \in {{<<"read_cur", 0>>}}
                    \cup {{<<"read_entry", k>>} : k \in 1 .. Len(entries)} :
               jfs_ls(Store, current_dir, F).res = "E_UNKNOWN"
        /\ \A name \in Names :
               HasEntry(entries, name)
               => /\ \A F \in {{"read_cur"}, {"read_target"}} :
                         /\ jfs_chdir(Store, current_dir, name, F).res = "E_UNKNOWN"
                         /\ jfs_rmdir(Store, current_dir, name, F).res = "E_UNKNOWN"
                  /\ LET s == jfs_stat(Store, current_dir, name, {})
                     IN  (IsFileStat(s) /\ s.out.file_size % BLOCK_SIZE > 0)
                         => \A b \in Bufs :
                                ~FileTooLarge(s.out.file_size, Len(b))
                                => \A w \in jfs_write(Store, current_dir, name, b,
                                                      {<<"release_last", 0>>}) :
                                       w.res = "E_UNKNOWN"

\* the return codes of the name-length, existence and kind checks
CheckCodes ==
    {"E_EXISTS", "E_NOT_EXISTS", "E_NOT_DIR", "E_IS_DIR", "E_NOT_EMPTY",
     "E_MAX_NAME_LENGTH", "E_MAX_DIR_ENTRIES", "E_MAX_FILE_SIZE"}

\* what a call did, without the output it handed to the caller
Effect(o) == [st |-> o.st, cur |-> o.cur, res |-> o.res]

\* the effect of every call that can be made in this state: every operation,
\* name, buffer, byte count, store failure and handle the allocator may
\* return
AllCalls ==
    {Effect(jfs_mkdir(Store, current_dir, name, F, h)) :
        name \in AllNames \cup {ThirdName}, F \in FaultSets(MkdirFaults),
        h \in allocate_block(Store)}
    \cup {Effect(jfs_creat(Store, current_dir, name, F, h)) :
        name \in AllNames \cup {ThirdName}, F \in FaultSets(CreatFaults),
        h \in allocate_block(Store)}
    \cup {Effect(jfs_chdir(Store, current_dir, name, F)) :
        name \in Names \cup {ThirdName, NoName}, F \in FaultSets(ChdirFaults)}
    \cup {Effect(jfs_rmdir(Store, current_dir, name, F)) :
        name \in Names \cup {ThirdName}, F \in FaultSets(RmdirFaults)}
    \cup {Effect(jfs_remove(Store, current_dir, name, F)) :
        name \in Names \cup {ThirdName}, F \in FaultSets(RemoveFaults)}
    \cup {Effect(jfs_stat(Store, current_dir, name, F)) :
        name \in Names \cup {ThirdName}, F \in FaultSets(StatFaults)}
    \cup {Effect(jfs_read(Store, current_dir, name, n, F)) :
        name \in Names \cup {ThirdName}, n \in 0 .. MaxCount,
        F \in FaultSets(ReadFaults)}
    \cup {Effect(w) :
        w \in UNION {jfs_write(Store, current_dir, name, buf, F) :
                      name \in Names \cup {ThirdName}, buf \in Bufs,
                      F \in FaultSets(WriteFaults)}}

\* C18: a call that returns E_EXISTS, E_NOT_EXISTS, E_NOT_DIR, E_IS_DIR,
\* E_NOT_EMPTY, E_MAX_NAME_LENGTH, E_MAX_DIR_ENTRIES or E_MAX_FILE_SIZE
\* has left every block, the allocated set and the cursor as they were and
\* has made no release_block call: this for every operation, argument,
\* single store failure and handle the allocator may return.
C18_ChecksBeforeStore ==
    \A o \in AllCalls :
        o.res \in CheckCodes => o.st = Store /\ o.cur = current_dir

\* a full directory holding a directory and a file, with blocks left for
\* the allocator to hand out: remove, read and write on the directory and
\* rmdir and chdir on the file return their kind errors, mkdir and creat
\* return E_EXISTS, E_MAX_NAME_LENGTH and E_MAX_DIR_ENTRIES, and remove of
\* an absent name returns E_NOT_EXISTS
C18_Witness ==
    /\ aftermath = 0
    /\ FreeBlocks(Store) # {}
    /\ \E d, f \in Names :
           /\ jfs_remove(Store, current_dir, d, {}).res = "E_IS_DIR"
           /\ jfs_read(Store, current_dir, d, 1, {}).res = "E_IS_DIR"
           /\ \A w \in jfs_write(Store, current_dir, d, <<MaxByte>>, {}) :
                  w.res = "E_IS_DIR"
           /\ jfs_rmdir(Store, current_dir, f, {}).res = "E_NOT_DIR"
           /\ jfs_chdir(Store, current_dir, f, {}).res = "E_NOT_DIR"
           /\ \E h \in FreeBlocks(Store) :
                  /\ jfs_mkdir(Store, current_dir, f, {}, h).res = "E_EXISTS"
                  /\ jfs_creat(Store, current_dir, LongName, {}, h).res
                         = "E_MAX_NAME_LENGTH"
                  /\ jfs_mkdir(Store, current_dir, ThirdName, {}, h).res
                         = "E_MAX_DIR_ENTRIES"
    /\ jfs_remove(Store, current_dir, ThirdName, {}).res = "E_NOT_EXISTS"

KeepsBlocks(file_size) ==
    \/ file_size > BLOCK_SIZE /\ file_size % BLOCK_SIZE # 0
    \/ file_size # 0 /\ file_size % BLOCK_SIZE = 0

\* the buffers write(name, buf) takes past its size check, with the
\* file's size, for every file name of the current directory
C20_Writes ==
    {[file_size |-> jfs_stat(Store, current_dir, name, {}).out.file_size,
      count |-> Len(buf)] :
        name \in {n \in Names : IsFileStat(jfs_stat(Store, current_dir, n, {}))},
        buf \in Bufs}

\* C20 as stated: whenever next_start_position > 0, some index used on
\* data_block_nums is >= blocks_needed.
C20_AlwaysPastBound ==
    \A c \in C20_Writes :
        LET nsp == NextStartPosition(c.file_size)
            bn == BlocksNeeded(c.file_size, c.count)
        IN  (~FileTooLarge(c.file_size, c.count) /\ nsp > 0)
            => \E k \in 1 .. bn : OutOfBounds(nsp, bn, k)

\* C20: in a write that passes its size check, next_start_position > 0
\* exactly when the file keeps blocks (KeepsBlocks); the k-th new handle
\* is kept at index next_start_position + k - 1 of an array of
\* blocks_needed elements, so with next_start_position > 0 and
\* blocks_needed > 0 the last index used is past the bound, with
\* blocks_needed = 0 no index is used, and with next_start_position = 0
\* every index is within the bound.
C20_PastBound ==
    \A c \in C20_Writes :
        LET nsp == NextStartPosition(c.file_size)
            bn == BlocksNeeded(c.file_size, c.count)
        IN  ~FileTooLarge(c.file_size, c.count)
            => /\ nsp > 0 <=> KeepsBlocks(c.file_size)
               /\ (nsp > 0 /\ bn > 0) => OutOfBounds(nsp, bn, bn)
               /\ nsp = 0 => \A k \in 1 .. bn : ~OutOfBounds(nsp, bn, k)
               /\ bn = 0 <=> (c.count = 0 /\ c.file_size % BLOCK_SIZE = 0)

\* a file of BLOCK_SIZE bytes in the current directory: a write of
\* BLOCK_SIZE bytes keeps its new handle past the bound and can return
\* E_SUCCESS, and a write of no bytes needs no block
C20_Witness ==
    \E name \in Names :
        LET s == jfs_stat(Store, current_dir, name, {})
        IN  /\ IsFileStat(s)
            /\ s.out.file_size = BLOCK_SIZE
            /\ OutOfBounds(NextStartPosition(BLOCK_SIZE),
                           BlocksNeeded(BLOCK_SIZE, BLOCK_SIZE), 1)
            /\ \E w \in jfs_write(Store, current_dir, name, <<0, MaxByte>>, {}) :
                   w.res = "E_SUCCESS"
            /\ BlocksNeeded(BLOCK_SIZE, 0) = 0
            /\ \E w \in jfs_write(Store, current_dir, name, <<>>, {}) :
                   w.res = "E_SUCCESS"

\* the position of the first entry called name
PositionOf(entries, name) ==
    CHOOSE k \in 1 .. Len(entries) :
        /\ entries[k].name = name
        /\ \A j \in 1 .. (k - 1) : entries[j].name # name

\* entries without the one at position i: the entries before i stay where
\* they are and the entries after i move down by one
Without(entries, i, after) ==
    /\ Len(after) = Len(entries) - 1
    /\ \A j \in 1 .. Len(after) :
           after[j] = IF j < i THEN entries[j] ELSE entries[j + 1]

\* the names of the entries of st at cur whose block is, or is not, tagged
\* as a directory, in entry order
RECURSIVE NamesOfKind(_, _, _, _)
NamesOfKind(d, entries, wantDir, k) ==
    IF k > Len(entries) THEN <<>>
    ELSE LET e == entries[k]
             isDir == ValidHandle(e.block_num) /\ Tag(d[e.block_num]) = IS_DIR
         IN  (IF isDir = wantDir THEN <<e.name>> ELSE <<>>)
                 \o NamesOfKind(d, entries, wantDir, k + 1)

\* C21: while the store fails no call, for every entry name of the current
\* directory at position i: an rmdir(name) or remove(name) that returns
\* E_SUCCESS leaves the directory with one entry fewer, the entries before
\* i unchanged and the entries after i moved down by one; a mkdir or creat
\* of a new name that returns E_SUCCESS leaves the old entries in place and
\* the new entry last; and ls returns the names of the entries tagged as
\* directories and the names of the others, each in entry order.  The
\* compaction loop is also run on every sequence of MAX_DIR_ENTRIES + 1
\* entries with distinct names, where an entry can have neighbours on both
\* sides.
C21_RemoveCompacts ==
    LET entries == Entries(disk[current_dir])
        l == jfs_ls(Store, current_dir, {})
    IN  /\ \A es \in InjSeqs({[name |-> n, block_num |-> 2] : n \in Names \cup {ThirdName}},
                             MAX_DIR_ENTRIES + 1) :
               \A i \in 1 .. Len(es) : Without(es, i, RemoveEntry(es, i))
        /\ l.res = "E_SUCCESS"
        /\ l.out.directories = NamesOfKind(disk, entries, TRUE, 1)
        /\ l.out.files = NamesOfKind(disk, entries, FALSE, 1)
        /\ \A name \in Names :
               IF HasEntry(entries, name)
               THEN \A o \in {jfs_rmdir(Store, current_dir, name, {}),
                              jfs_remove(Store, current_dir, name, {})} :
                        o.res = "E_SUCCESS"
                        => Without(entries, PositionOf(entries, name),
                                   Entries(o.st.disk[o.cur]))
               ELSE \A h \in allocate_block(Store) :
                        \A o \in {jfs_mkdir(Store, current_dir, name, {}, h),
                                  jfs_creat(Store, current_dir, name, {}, h)} :
                            o.res = "E_SUCCESS"
                            => Entries(o.st.disk[o.cur])
                                   = Append(entries, [name |-> name, block_num |-> h])

\* a directory of two entries, a directory first and a file second: rmdir
\* of the first and remove of the second both return E_SUCCESS
C21_Witness ==
    LET entries == Entries(disk[current_dir])
    IN  /\ aftermath = 0
        /\ Len(entries) = 2
        /\ entries[1].name \in Names /\ entries[2].name \in Names
        /\ jfs_rmdir(Store, current_dir, entries[1].name, {}).res = "E_SUCCESS"
        /\ jfs_remove(Store, current_dir, entries[2].name, {}).res = "E_SUCCESS"

\* C22: the cursor names a block that is allocated, tagged as a directory
\* and reachable from the root; and every call that can be made leaves the
\* cursor where it was unless it is a chdir that returns E_SUCCESS.
C22_CursorOnDirectory ==
    /\ current_dir \in alloc
    /\ Tag(disk[current_dir]) = IS_DIR
    /\ current_dir \in Nodes(disk)
    /\ \A o \in AllCalls :
           o.cur # current_dir
           => /\ o.res = "E_SUCCESS"
              /\ o \in {Effect(jfs_chdir(Store, current_dir, name, F)) :
                          name \in Names \cup {NoName}, F \in FaultSets(ChdirFaults)}

\* the sizes of the files of the current directory
C23_FileSizes ==
    {jfs_stat(Store, current_dir, name, {}).out.file_size :
        name \in {n \in Names : IsFileStat(jfs_stat(Store, current_dir, n, {}))}}

\* C23: with MAX_FILE_SIZE <= MAX_DATA_BLOCKS * BLOCK_SIZE, for the size of
\* every file of the current directory and for every file_size up to
\* MAX_FILE_SIZE, and every count that passes the size check of write:
\* next_start_position is the index of the partial last block when
\* file_size is no multiple of BLOCK_SIZE and the number of blocks
\* otherwise, next_start_position + blocks_needed is the number of blocks
\* file_size + count bytes take, and that is at most MAX_DATA_BLOCKS, so
\* every inode slot written has an index < MAX_DATA_BLOCKS.
C23_SlotsInRange ==
    /\ MAX_FILE_SIZE <= MAX_DATA_BLOCKS * BLOCK_SIZE
    /\ \A file_size \in C23_FileSizes \cup (0 .. MAX_FILE_SIZE) :
           \A count \in 0 .. (MAX_FILE_SIZE + 1) :
               LET nsp == NextStartPosition(file_size)
                   bn == BlocksNeeded(file_size, count)
               IN  ~FileTooLarge(file_size, count)
                   => /\ nsp = IF file_size % BLOCK_SIZE # 0
                               THEN (file_size - 1) \div BLOCK_SIZE
                               ELSE file_size \div BLOCK_SIZE
                      /\ nsp + bn = CeilBlocks(file_size + count)
                      /\ nsp + bn <= MAX_DATA_BLOCKS
                      /\ \A k \in 1 .. bn : nsp + k - 1 < MAX_DATA_BLOCKS

\* a file of MAX_FILE_SIZE - 1 bytes, its last block partly filled: the
\* write of one more byte passes the size check, returns E_SUCCESS and
\* leaves the last of the MAX_DATA_BLOCKS slots in use
C23_Witness ==
    \E name \in Names :
        LET s == jfs_stat(Store, current_dir, name, {})
        IN  /\ IsFileStat(s)
            /\ s.out.file_size = MAX_FILE_SIZE - 1
            /\ s.out.file_size % BLOCK_SIZE # 0
            /\ \E w \in jfs_write(Store, current_dir, name, <<MaxByte>>, {}) :
                   /\ w.res = "E_SUCCESS"
                   /\ DataBlocks(w.st.disk[s.out.block_num])[MAX_DATA_BLOCKS] # 0

====
